---- MODULE Spec2Model ----
(***************************************************************************)
(* Control-flow and shape-level model of src/src/bss/ipsdta.py:            *)
(* IPSDTAbase / GaussIPSDTA / tIPSDTA.                                     *)
(*                                                                         *)
(* An instance is a function from attribute names to values, so that       *)
(* hasattr(self, k) is  k \in DOMAIN self  and setattr is function         *)
(* override.  Arrays are represented by what the control flow depends on:  *)
(* their container form and the dimensions that numpy checks when it       *)
(* broadcasts or reshapes them.                                            *)
(***************************************************************************)
EXTENDS Integers, Sequences, FiniteSets, TLC

VARIABLES
    self,       \* the instance's attributes; NoInstance before/without construction
    given,      \* the arguments the caller passed to the constructor
    pc,         \* position of control
    err,        \* exception that ended the last operation, "none" if none
    iteration,  \* __call__'s argument `iteration`
    idx,        \* __call__'s loop variable, counted from 1 (0 before the loop)
    spatial_idx,\* update_once's loop variable: spatial updates done in this iteration
    cb_idx,     \* callbacks already invoked in the current `for callback in ...`
    kwargs,     \* __call__'s keyword options
    calls,      \* number of __call__ invocations started on this instance
    log         \* what the current call has executed so far, in order

vars == <<self, given, pc, err, iteration, idx, spatial_idx, cb_idx, kwargs, calls, log>>

-----------------------------------------------------------------------------
(* Bounds of the model *)

MaxIter == 2
MaxCalls == 2
MaxBinsP == 12
NChannels == 2
NBins == 4
NFrames == 3
CtorSpatialIteration == 2
CallSpatialIteration == 3

(* Program constants *)

PRESET_N_BLOCKS == 1024
IKESHITA_SPATIAL_ITERATION == 1
KONDO_SPATIAL_ITERATION == 10

-----------------------------------------------------------------------------
(* Python values *)

None == [kind |-> "none"]
Callable(f) == [kind |-> "callable", f |-> f]
List(fs) == [kind |-> "list", fs |-> fs]
Int_(v) == [kind |-> "int", v |-> v]

NoKwargs == [k \in {} |-> 0]
NoInstance == [k \in {} |-> 0]

HasAttr(o, k) == k \in DOMAIN o
SetAttr(o, k, v) == (k :> v) @@ o

RECURSIVE SetAttrs(_, _)
SetAttrs(o, kw) ==
    IF DOMAIN kw = {} THEN o
    ELSE LET k == CHOOSE x \in DOMAIN kw : TRUE
         IN SetAttrs(SetAttr(o, k, kw[k]), [x \in DOMAIN kw \ {k} |-> kw[x]])

(* An array the caller has created carries the field owner; ndarray.copy()
   gives an array of the same contents that the engine owns. *)
CallerArray(a) == [owner |-> "caller"] @@ a
CallerOwned(a) == "owner" \in DOMAIN a
np_copy(a) == [k \in DOMAIN a \ {"owner"} |-> a[k]]

(* str.lower() on the author names that occur *)
Lower(s) ==
    CASE s = "Ikeshita" -> "ikeshita"
      [] s = "Kondo"    -> "kondo"
      [] s = "KONDO"    -> "kondo"
      [] s = "Sawada"   -> "sawada"
      [] OTHER          -> s

authors_ipsdta == {"ikeshita", "kondo"}

kwargs_ikeshita_ipsdta ==
    [n_blocks |-> PRESET_N_BLOCKS, spatial_iteration |-> IKESHITA_SPATIAL_ITERATION]

kwargs_kondo_ipsdta ==
    [n_blocks |-> PRESET_N_BLOCKS, spatial_iteration |-> KONDO_SPATIAL_ITERATION]

-----------------------------------------------------------------------------
(* Construction *)

(* IPSDTAbase.__init__ *)
BaseInit(a) ==
    [callbacks |-> IF a.callbacks # None
                   THEN (IF a.callbacks.kind = "callable"
                         THEN List(<<a.callbacks.f>>)
                         ELSE a.callbacks)
                   ELSE None,
     n_basis |-> a.n_basis,
     normalize |-> a.normalize,
     input |-> None,
     recordable_loss |-> a.recordable_loss,
     loss |-> IF a.recordable_loss THEN List(<<>>) ELSE None]

(* GaussIPSDTA.__init__: [exc, obj]; obj is meaningful only when exc = "none" *)
GaussInitMissingKwargCheck(a) ==
    LET o1 == SetAttr(SetAttr(BaseInit(a), "spatial_iteration", a.spatial_iteration),
                      "author", a.author)
        preset == IF Lower(a.author) = "ikeshita" THEN kwargs_ikeshita_ipsdta
                  ELSE kwargs_kondo_ipsdta
    IN IF Lower(a.author) \in authors_ipsdta
       THEN [exc |-> "none", obj |-> SetAttrs(SetAttrs(o1, preset), a.kwargs)]
       ELSE [exc |-> "ValueError", obj |-> NoInstance]

GaussInit(a) ==
    LET o1 == SetAttr(SetAttr(BaseInit(a), "spatial_iteration", a.spatial_iteration),
                      "author", a.author)
        preset == IF Lower(a.author) = "ikeshita" THEN kwargs_ikeshita_ipsdta
                  ELSE kwargs_kondo_ipsdta
    IN IF Lower(a.author) \in authors_ipsdta
       THEN IF DOMAIN a.kwargs \ DOMAIN preset # {}
            THEN [exc |-> "ValueError", obj |-> NoInstance]
            ELSE [exc |-> "none", obj |-> SetAttrs(SetAttrs(o1, preset), a.kwargs)]
       ELSE [exc |-> "ValueError", obj |-> NoInstance]

(* tIPSDTA.__init__ *)
TInitReturns(a) ==
    LET o1 == SetAttr(SetAttr(SetAttr(BaseInit(a), "nu", a.nu),
                      "spatial_iteration", a.spatial_iteration), "author", a.author)
    IN IF Lower(a.author) \in authors_ipsdta
       THEN IF Lower(a.author) = "kondo" /\ DOMAIN a.kwargs \ DOMAIN kwargs_kondo_ipsdta # {}
            THEN [exc |-> "ValueError", obj |-> NoInstance]
            ELSE [exc |-> "none",
                  obj |-> SetAttrs(IF Lower(a.author) = "kondo"
                                   THEN SetAttrs(o1, kwargs_kondo_ipsdta) ELSE o1,
                                   a.kwargs)]
       ELSE [exc |-> "ValueError", obj |-> NoInstance]

TInit(a) ==
    LET o1 == SetAttr(SetAttr(SetAttr(BaseInit(a), "nu", a.nu),
                      "spatial_iteration", a.spatial_iteration), "author", a.author)
    IN IF Lower(a.author) \in authors_ipsdta
       THEN IF Lower(a.author) = "kondo" /\ DOMAIN a.kwargs \ DOMAIN kwargs_kondo_ipsdta # {}
            THEN [exc |-> "ValueError", obj |-> NoInstance]
            ELSE [exc |-> "NotImplementedError", obj |-> NoInstance]
       ELSE [exc |-> "ValueError", obj |-> NoInstance]

-----------------------------------------------------------------------------
(* Array shapes and the numpy rules the code relies on *)

Max(a, b) == IF a >= b THEN a ELSE b

(* numpy broadcasting of one dimension against another *)
Broadcastable(a, b) == a = b \/ a = 1 \/ b = 1

(* Outcome of a stage of a method: the exception raised ("none" if none) and
   the instance as the stage leaves it *)
Ok(o) == [exc |-> "none", obj |-> o]
Raise(e, o) == [exc |-> e, obj |-> o]
Then(r, F(_)) == IF r.exc # "none" THEN r ELSE F(r.obj)

(* IPSDTAbase.separate: demix_filter (bins, n_sources, n_channels) @ input
   (n_bins, n_channels, n_frames); the batch dimension broadcasts *)
SeparateRaises(o) == ~Broadcastable(o.demix_filter.bins, o.input.n_bins)
SeparateShapeNotTransposedBack(o) ==
    <<Max(o.demix_filter.bins, o.input.n_bins), o.input.n_channels, o.input.n_frames>>

SeparateShape(o) ==
    <<o.input.n_channels, Max(o.demix_filter.bins, o.input.n_bins), o.input.n_frames>>

(* Block partition of _reset_block, lines 262-266 *)
n_neighbors_of(n_bins, n_blocks) == n_bins \div n_blocks
n_remains_of(n_bins, n_blocks) == n_bins % n_blocks

(* a partition that puts the whole remainder into one last block *)
FreshBasisOneHighBlock(n_blocks, n_neighbors, n_remains) ==
    IF n_remains > 0
    THEN [form |-> "pair",
          shape |-> << <<n_blocks - 1, n_neighbors>>,
                       <<1, n_neighbors + n_remains>> >>]
    ELSE [form |-> "single", shape |-> << <<n_blocks, n_neighbors>> >>]

(* Shape of a freshly initialised basis, lines 268-283: the groups of blocks,
   each group <<number of blocks, block size>> *)
FreshBasis(n_blocks, n_neighbors, n_remains) ==
    IF n_remains > 0
    THEN [form |-> "pair",
          shape |-> << <<n_blocks - n_remains, n_neighbors>>,
                       <<n_remains, n_neighbors + 1>> >>]
    ELSE [form |-> "single", shape |-> << <<n_blocks, n_neighbors>> >>]

-----------------------------------------------------------------------------
(* GaussIPSDTA._reset_block, stage by stage.  A stage that raises leaves the
   attributes written by the stages before it. *)

(* lines 242-251 *)
ResetDims(o) ==
    Ok(SetAttrs(o, [n_sources |-> o.input.n_channels, n_channels |-> o.input.n_channels,
                    n_bins |-> o.input.n_bins, n_frames |-> o.input.n_frames]))

(* lines 253-260 *)
ResetDemix(o) ==
    LET o1 == IF ~HasAttr(o, "demix_filter")
              THEN SetAttr(o, "demix_filter", [bins |-> o.n_bins])
              ELSE SetAttr(o, "demix_filter", np_copy(o.demix_filter))
    IN IF SeparateRaises(o1) THEN Raise("ValueError", o1)
       ELSE Ok(SetAttr(o1, "estimation", SeparateShape(o1)))

(* lines 262-266 *)
ResetPartition(o) ==
    IF o.n_blocks = 0 THEN Raise("ZeroDivisionError", o)
    ELSE Ok(SetAttrs(o, [n_neighbors |-> n_neighbors_of(o.n_bins, o.n_blocks),
                         n_remains |-> n_remains_of(o.n_bins, o.n_blocks)]))

(* lines 268-292 *)
ResetBasis(o) ==
    IF ~HasAttr(o, "basis")
    THEN Ok(SetAttr(o, "basis", FreshBasis(o.n_blocks, o.n_neighbors, o.n_remains)))
    ELSE IF o.n_remains > 0
         THEN \* U_low, U_high = self.basis
              IF o.basis.form = "single"
              THEN IF o.n_sources = 2
                   THEN Ok(SetAttr(o, "basis", np_copy([o.basis EXCEPT !.form = "pair4d"])))
                   ELSE Raise("ValueError", o)
              ELSE Ok(SetAttr(o, "basis", np_copy(o.basis)))
         ELSE \* U = self.basis; U.copy()
              IF o.basis.form = "single" THEN Ok(SetAttr(o, "basis", np_copy(o.basis)))
              ELSE Raise("AttributeError", o)

(* the supplied activation kept as it is, without the copy of line 297 *)
ResetActivationNotCopied(o) ==
    IF ~HasAttr(o, "activation")
    THEN Ok(SetAttr(o, "activation", [frames |-> o.n_frames]))
    ELSE Ok(o)

(* lines 294-297 *)
ResetActivation(o) ==
    IF ~HasAttr(o, "activation")
    THEN Ok(SetAttr(o, "activation", [frames |-> o.n_frames]))
    ELSE Ok(SetAttr(o, "activation", np_copy(o.activation)))

(* lines 299-315 *)
ResetNormalize(o) ==
    IF o.normalize /\ o.n_remains > 0 /\ o.basis.form = "pair4d"
    THEN Raise("IndexError", o)
    ELSE Ok(o)

(* the auxiliary vector set to ones by every reset *)
ResetAlgorithmFreshFixedPoint(o) ==
    IF Lower(o.author) = "ikeshita"
    THEN Ok(SetAttrs(o, [fixed_point |-> [bins |-> o.n_bins, ones |-> TRUE],
                         algorithm_spatial |-> "fixed-point"]))
    ELSE IF Lower(o.author) = "kondo"
         THEN Ok(SetAttr(o, "algorithm_spatial", "VCD"))
         ELSE Raise("ValueError", o)

(* the spatial update rule taken from the caller when the caller names one *)
ResetAlgorithmKeepsSupplied(o) ==
    IF HasAttr(o, "algorithm_spatial") THEN Ok(o)
    ELSE IF Lower(o.author) = "ikeshita"
    THEN Ok(SetAttr(IF ~HasAttr(o, "fixed_point")
                    THEN SetAttr(o, "fixed_point", [bins |-> o.n_bins, ones |-> TRUE])
                    ELSE o,
                    "algorithm_spatial", "fixed-point"))
    ELSE IF Lower(o.author) = "kondo"
         THEN Ok(SetAttr(o, "algorithm_spatial", "VCD"))
         ELSE Raise("ValueError", o)

(* lines 317-328 *)
ResetAlgorithm(o) ==
    IF Lower(o.author) = "ikeshita"
    THEN Ok(SetAttr(IF ~HasAttr(o, "fixed_point")
                    THEN SetAttr(o, "fixed_point", [bins |-> o.n_bins, ones |-> TRUE])
                    ELSE SetAttr(o, "fixed_point", np_copy(o.fixed_point)),
                    "algorithm_spatial", "fixed-point"))
    ELSE IF Lower(o.author) = "kondo"
         THEN Ok(SetAttr(o, "algorithm_spatial", "VCD"))
         ELSE Raise("ValueError", o)

reset_block(o) ==
    Then(Then(Then(Then(Then(Then(ResetDims(o), ResetDemix), ResetPartition),
         ResetBasis), ResetActivation), ResetNormalize), ResetAlgorithm)

(* GaussIPSDTA._reset, lines 232-239 *)
reset(o, kw) ==
    LET o1 == SetAttrs(o, kw)
    IN IF Lower(o1.author) \in authors_ipsdta THEN reset_block(o1) ELSE Ok(o1)

-----------------------------------------------------------------------------
(* The update rules and the loss evaluator, at the level of the exceptions
   they raise and the shapes they store *)

(* `if n_remains > 0: U_low, U_high = U; U_low.transpose(0, 4, 1, 2, 3) ...
    else: U.transpose(0, 4, 1, 2, 3)`, e.g. lines 411-413 and 443 *)
BasisUnpackExc(o) ==
    IF o.n_remains > 0
    THEN IF o.basis.form = "pair" THEN "none" ELSE "ValueError"
    ELSE IF o.basis.form = "single" THEN "none" ELSE "AttributeError"

(* Y = self.separate(X, demix_filter=W_Hermite) *)
SeparateExc(o) == IF SeparateRaises(o) THEN "ValueError" ELSE "none"

(* the bins of the estimate taken from the stored attribute *)
ReshapeExcOfStoredEstimation(o) ==
    IF o.estimation[2] # o.n_bins THEN "ValueError" ELSE "none"

(* Y (or y) reshaped into blocks of the partition, e.g. lines 414-416, 444 *)
ReshapeExc(o) == IF SeparateShape(o)[2] # o.n_bins THEN "ValueError" ELSE "none"

(* the model covariance R, built from U and V, meets a per-frame quantity *)
FramesExc(o) ==
    IF Broadcastable(o.activation.frames, o.n_frames) THEN "none" ELSE "ValueError"

FirstExc(es) ==
    IF \A i \in 1..Len(es) : es[i] = "none" THEN "none"
    ELSE es[CHOOSE i \in 1..Len(es) : es[i] # "none" /\ \A j \in 1..(i-1) : es[j] = "none"]

(* a source-model update that also stores the demixing matrix it read, as a
   plain array of n_bins bins *)
source_model_em_mm_stores_demix_filter(o) ==
    LET e == FirstExc(<<SeparateExc(o), BasisUnpackExc(o), ReshapeExc(o), FramesExc(o)>>)
    IN IF e # "none" THEN Raise(e, o)
       ELSE Ok(SetAttrs(o, [activation |-> [frames |-> Max(o.activation.frames, o.n_frames)],
                            demix_filter |-> [bins |-> o.n_bins]]))

(* update_source_model_em / update_source_model_mm, lines 390-719: both read Y,
   unpack the basis, combine R with Y frame by frame, and store a basis of the
   same form and an activation with one entry per frame *)
source_model_em_mm(o) ==
    LET e == FirstExc(<<SeparateExc(o), BasisUnpackExc(o), ReshapeExc(o), FramesExc(o)>>)
    IN IF e # "none" THEN Raise(e, o)
       ELSE Ok(SetAttr(o, "activation",
                       [frames |-> Max(o.activation.frames, o.n_frames)]))

(* update_source_model, lines 348-378 *)
update_source_model(o) ==
    IF Lower(o.author) = "ikeshita" THEN source_model_em_mm(o)
    ELSE IF Lower(o.author) = "kondo" THEN source_model_em_mm(o)
    ELSE Raise("NotImplementedError", o)

(* The bins axis of the arrays of the fixed-point update.  An entry is
   labelled with the bin it belongs to (0-based, as numpy counts), a row entry
   with <<bin, channel>>; the operators below move the labels as numpy moves
   the values. *)

(* np.split(a, [s], axis) along the bins axis *)
np_split(a, s) == <<SubSeq(a, 1, s), SubSeq(a, s + 1, Len(a))>>

(* a.reshape(n, k) of a flat array, in row-major order *)
np_reshape(a, n, k) == [b \in 1..n |-> [i \in 1..k |-> a[(b - 1) * k + i]]]

(* m.reshape(n * k) of an array of n rows of k entries *)
np_ravel(m, n, k) == [p \in 1..(n * k) |-> m[((p - 1) \div k) + 1][((p - 1) % k) + 1]]

(* the high group put first *)
np_concatenate_swapped(lo, hi) == hi \o lo

(* np.concatenate([lo, hi], axis) along the bins axis *)
np_concatenate(lo, hi) == lo \o hi

(* A (n_sources, n_bins, n_channels), per source *)
ARows(n_bins, n_channels) ==
    [p \in 1..(n_bins * n_channels) |-> <<(p - 1) \div n_channels, (p - 1) % n_channels>>]

(* One group of blocks, lines 769-796 (815-839 for the single group): A is
   reshaped to (n, k, n_channels); the new Lambda (n, k) has at (b, i) the
   entry of the bin of A[b, i]; W = GL @ A (n, k * n_channels) has at
   (b, i * n_channels + c) the entry of A[b, i, c]; both are reshaped back
   to the bins axis. *)
GroupLambda(A, n, k, n_channels) ==
    LET A3 == np_reshape(A, n * k, n_channels)
        new == [b \in 1..n |-> [i \in 1..k |-> A3[(b - 1) * k + i][1][1]]]
    IN np_ravel(new, n, k)

GroupW(A, n, k, n_channels) ==
    LET A2 == np_reshape(A, n, k * n_channels)
        W == [b \in 1..n |-> [q \in 1..(k * n_channels) |-> A2[b][q]]]
    IN np_reshape(np_ravel(W, n, k * n_channels), n * k, n_channels)

(* the bins axis of the new Lambda and of the new W, lines 736-846 *)
FixedPointLambda(o) ==
    LET A == ARows(o.n_bins, o.n_channels)
        s == (o.n_blocks - o.n_remains) * o.n_neighbors
        g == np_split(A, s * o.n_channels)
    IN IF o.n_remains > 0
       THEN np_concatenate(
                GroupLambda(g[1], o.n_blocks - o.n_remains, o.n_neighbors, o.n_channels),
                GroupLambda(g[2], o.n_remains, o.n_neighbors + 1, o.n_channels))
       ELSE GroupLambda(A, o.n_blocks, o.n_neighbors, o.n_channels)

FixedPointW(o) ==
    LET A == ARows(o.n_bins, o.n_channels)
        s == (o.n_blocks - o.n_remains) * o.n_neighbors
        g == np_split(A, s * o.n_channels)
    IN IF o.n_remains > 0
       THEN np_concatenate(
                GroupW(g[1], o.n_blocks - o.n_remains, o.n_neighbors, o.n_channels),
                GroupW(g[2], o.n_remains, o.n_neighbors + 1, o.n_channels))
       ELSE GroupW(A, o.n_blocks, o.n_neighbors, o.n_channels)

(* The rows of the demixing matrix, one per source.  A row is known by its
   version (how many updates have written it) and by the versions of all
   the rows of the matrix that the update which wrote it read. *)
RowVersions(o) ==
    [n \in 1..o.n_sources |->
        IF "rows" \in DOMAIN o.demix_filter THEN o.demix_filter.rows[n].ver ELSE 0]

(* A = np.linalg.inv(W_Hermite), lines 767 and 822, is taken once; the rows
   of all sources are then computed together from it, lines 790-795, 841-846 *)
fixed_point_rows(o) ==
    LET W == RowVersions(o)
    IN [n \in 1..o.n_sources |-> [ver |-> W[n] + 1, read |-> W]]

(* every row computed from the matrix as it was when the update started *)
vcd_rows_from_start(o) ==
    LET W == RowVersions(o)
    IN [n \in 1..o.n_sources |-> [ver |-> W[n] + 1, read |-> W]]

(* for source_idx in range(n_sources), lines 885-916: the pass for a source
   reads W_Hermite (lines 886, 896) and then writes its row into W_Hermite
   (line 916); W the versions in W_Hermite before the pass for source n *)
RECURSIVE vcd_loop(_, _, _, _)
vcd_loop(W, rows, n, n_sources) ==
    IF n > n_sources THEN rows
    ELSE vcd_loop([W EXCEPT ![n] = W[n] + 1],
                  [rows EXCEPT ![n] = [ver |-> W[n] + 1, read |-> W]],
                  n + 1, n_sources)

vcd_rows(o) ==
    LET W == RowVersions(o)
    IN vcd_loop(W, [n \in 1..o.n_sources |-> [ver |-> W[n], read |-> W]], 1, o.n_sources)

(* update_spatial_model_fixed_point, lines 721-849 *)
update_spatial_model_fixed_point(o) ==
    LET e == FirstExc(<<SeparateExc(o), BasisUnpackExc(o), FramesExc(o),
                        IF o.demix_filter.bins # o.n_bins THEN "ValueError" ELSE "none",
                        IF o.fixed_point.bins # o.n_bins THEN "ValueError" ELSE "none">>)
    IN IF e # "none" THEN Raise(e, o)
       ELSE Ok(SetAttrs(o, [demix_filter |-> [bins |-> o.n_bins, bin_of |-> FixedPointW(o),
                                             rows |-> fixed_point_rows(o)],
                            fixed_point |-> [bins |-> o.n_bins, ones |-> FALSE,
                                             bin_of |-> FixedPointLambda(o)]]))

(* update_spatial_model_vcd, lines 851-923 *)
update_spatial_model_vcd(o) ==
    IF SeparateRaises(o) THEN Raise("ValueError", o)
    ELSE IF o.basis.form # "single" THEN Raise("AttributeError", o)   \* line 863
    ELSE IF o.n_remains = 0
         THEN IF o.demix_filter.bins # o.n_bins \/ FramesExc(o) # "none"
              THEN Raise("ValueError", o)
              ELSE Ok(SetAttr(o, "demix_filter", [bins |-> o.n_bins, rows |-> vcd_rows(o)]))
         ELSE Raise("NotImplementedError", o)                          \* line 921

(* update_spatial_model, lines 380-388 *)
update_spatial_model(o) ==
    IF ~HasAttr(o, "algorithm_spatial") THEN Raise("AttributeError", o)
    ELSE IF o.algorithm_spatial = "fixed-point" THEN update_spatial_model_fixed_point(o)
    ELSE IF o.algorithm_spatial = "VCD" THEN update_spatial_model_vcd(o)
    ELSE Raise("NotImplementedError", o)

(* The arrays an update writes in place.  update_basis_em floors V, which is
   self.activation itself, by `V[V < eps] = eps` (lines 409, 437, 460); the MM
   rules floor only arrays they have just computed (lines 715-716).  Every
   statement of the source-model update that can raise comes before the floor. *)
source_model_writes_in_place(o) ==
    IF Lower(o.author) = "ikeshita" /\ update_source_model(o).exc = "none"
    THEN {o.activation}
    ELSE {}

(* update_spatial_model_vcd writes the rows into W_Hermite, a reshaped view of
   self.demix_filter (lines 858, 870, 916); the fixed-point update and the
   loss evaluator write into no array they were given. *)
spatial_model_writes_in_place(o) ==
    IF update_spatial_model(o).exc = "none" /\ o.algorithm_spatial = "VCD"
    THEN {o.demix_filter}
    ELSE {}

(* compute_negative_loglikelihood, lines 925-986: the exception it raises *)
compute_negative_loglikelihood_exc(o) ==
    IF Lower(o.author) \in authors_ipsdta
    THEN FirstExc(<<SeparateExc(o), BasisUnpackExc(o), ReshapeExc(o), FramesExc(o)>>)
    ELSE "ValueError"

-----------------------------------------------------------------------------
(* What the caller passes *)

Authors == {"Ikeshita", "kondo", "Sawada"}

CtorKwargs ==
    {NoKwargs, [n_blocks |-> NBins \div 2], [n_blocks |-> NBins - 1], [bogus |-> 0]}

CallbackArgs == {None, Callable(1), List(<<1, 2>>)}

CtorArgs ==
    [author : Authors, kwargs : CtorKwargs, spatial_iteration : {None, Int_(CtorSpatialIteration)},
     n_basis : {1}, normalize : BOOLEAN, recordable_loss : BOOLEAN,
     callbacks : CallbackArgs]

TCtorArgs == {[nu |-> 1] @@ a : a \in CtorArgs}

Inputs == {CallerArray([n_channels |-> NChannels, n_bins |-> NBins, n_frames |-> NFrames])}

(* Warm-start arrays: of the shape the configuration asks for, or differing from
   it in the container form (basis) or in one dimension (activation: frames,
   demix_filter: bins) *)
WarmBasis(o) ==
    IF o.n_blocks = 0 THEN {}
    ELSE LET k == n_neighbors_of(NBins, o.n_blocks)
         IN {[form |-> "single", shape |-> << <<o.n_blocks, k>> >>],
             [form |-> "pair", shape |-> << <<o.n_blocks - 1, k>>, <<1, k + 1>> >>]}

(* a warm-start auxiliary vector: some array of n_bins or n_bins + 1 bins *)
WarmFixedPoint ==
    {[fixed_point |-> [bins |-> b, ones |-> FALSE]] : b \in {NBins, NBins + 1}}

CallKwargs(o) ==
    {NoKwargs, [author |-> "Sawada"], [spatial_iteration |-> CallSpatialIteration]}
    \cup {[n_blocks |-> b] : b \in {0, NBins \div 2, NBins - 1, NBins + 1}}
    \cup {[activation |-> CallerArray([frames |-> f])] : f \in {1, NFrames, NFrames + 1}}
    \cup {[demix_filter |-> CallerArray([bins |-> b])] : b \in {1, NBins, NBins + 1}}
    \cup {[basis |-> CallerArray(u)] : u \in WarmBasis(o)}
    \cup {[fixed_point |-> CallerArray(w.fixed_point)] : w \in WarmFixedPoint}

(* what a later call of the same instance passes *)
LaterCallKwargs == {NoKwargs, [author |-> "Sawada"]}

-----------------------------------------------------------------------------
(* Events of a call, for the log *)

Event(op, it, f) == [op |-> op, it |-> it, f |-> f]

RECURSIVE CountOp(_, _)
CountOp(l, op) ==
    IF l = <<>> THEN 0
    ELSE (IF l[1].op = op THEN 1 ELSE 0) + CountOp(Tail(l), op)

(* the value of a loss is determined by the state it is computed from *)
LossValue == [call |-> calls, source |-> CountOp(log, "source"),
              spatial |-> CountOp(log, "spatial")]

-----------------------------------------------------------------------------
(* The state machine *)

Init ==
    /\ self = NoInstance
    /\ given = NoKwargs
    /\ pc = "new"
    /\ err = "none"
    /\ iteration = 0
    /\ idx = 0
    /\ spatial_idx = 0
    /\ cb_idx = 0
    /\ kwargs = NoKwargs
    /\ calls = 0
    /\ log = <<>>

(* ipsdta = GaussIPSDTA(...) *)
NewGauss ==
    /\ pc = "new"
    /\ \E a \in CtorArgs :
         LET r == GaussInit(a)
         IN /\ given' = a
            /\ self' = r.obj
            /\ err' = r.exc
            /\ pc' = IF r.exc = "none" THEN "idle" ELSE "failed"
    /\ UNCHANGED <<iteration, idx, spatial_idx, cb_idx, kwargs, calls, log>>

(* ipsdta = tIPSDTA(...) *)
NewT ==
    /\ pc = "new"
    /\ \E a \in TCtorArgs :
         LET r == TInit(a)
         IN /\ given' = a
            /\ self' = r.obj
            /\ err' = r.exc
            /\ pc' = IF r.exc = "none" THEN "idle_t" ELSE "failed_t"
    /\ UNCHANGED <<iteration, idx, spatial_idx, cb_idx, kwargs, calls, log>>

(* ipsdta(input, iteration=n, **kwargs): lines 198-200 *)
Call ==
    /\ pc \in {"idle", "done", "raised"}
    /\ calls < MaxCalls
    /\ \E x \in Inputs, n \in 0..MaxIter,
          kw \in (IF calls = 0 THEN CallKwargs(self) ELSE LaterCallKwargs) :
         LET r == reset(SetAttr(self, "input", x), kw)
         IN /\ self' = r.obj
            /\ err' = r.exc
            /\ pc' = IF r.exc = "none" THEN "initial_loss" ELSE "raised"
            /\ iteration' = n
            /\ kwargs' = kw
    /\ idx' = 0
    /\ spatial_idx' = 0
    /\ cb_idx' = 0
    /\ calls' = calls + 1
    /\ log' = <<>>
    /\ UNCHANGED given

(* loss = self.compute_negative_loglikelihood(); self.loss.append(loss) *)
AppendLoss(next) ==
    LET e == compute_negative_loglikelihood_exc(self)
    IN IF e # "none"
       THEN /\ err' = e
            /\ pc' = "raised"
            /\ UNCHANGED <<self, log>>
       ELSE /\ self' = [self EXCEPT !.loss = List(Append(self.loss.fs, LossValue))]
            /\ log' = Append(log, Event("loss", idx, 0))
            /\ pc' = next
            /\ UNCHANGED err

(* the initial loss recorded by every call, whatever the trace holds *)
InitialLossEveryCall ==
    /\ pc = "initial_loss"
    /\ IF self.recordable_loss
       THEN AppendLoss("callbacks")
       ELSE /\ pc' = "callbacks"
            /\ UNCHANGED <<self, err, log>>
    /\ UNCHANGED <<given, iteration, idx, spatial_idx, cb_idx, kwargs, calls>>

(* lines 202-204 without the initial evaluation of the loss *)
InitialLossSkipped ==
    /\ pc = "initial_loss"
    /\ pc' = "callbacks"
    /\ UNCHANGED <<self, err, log>>
    /\ UNCHANGED <<given, iteration, idx, spatial_idx, cb_idx, kwargs, calls>>

(* lines 202-204 *)
InitialLoss ==
    /\ pc = "initial_loss"
    /\ IF self.recordable_loss /\ Len(self.loss.fs) = 0
       THEN AppendLoss("callbacks")
       ELSE /\ pc' = "callbacks"
            /\ UNCHANGED <<self, err, log>>
    /\ UNCHANGED <<given, iteration, idx, spatial_idx, cb_idx, kwargs, calls>>

(* the callbacks invoked inside the loop only, not once before it *)
CallbacksInLoopOnly ==
    /\ pc = "callbacks"
    /\ IF self.callbacks # None /\ cb_idx < Len(self.callbacks.fs) /\ idx >= 1
       THEN /\ log' = Append(log, Event("callback", idx, self.callbacks.fs[cb_idx + 1]))
            /\ cb_idx' = cb_idx + 1
            /\ UNCHANGED pc
       ELSE /\ pc' = "loop"
            /\ cb_idx' = 0
            /\ UNCHANGED log
    /\ UNCHANGED <<self, given, err, iteration, idx, spatial_idx, kwargs, calls>>

(* lines 206-208 before the loop (idx = 0), lines 217-219 inside it *)
Callbacks ==
    /\ pc = "callbacks"
    /\ IF self.callbacks # None /\ cb_idx < Len(self.callbacks.fs)
       THEN /\ log' = Append(log, Event("callback", idx, self.callbacks.fs[cb_idx + 1]))
            /\ cb_idx' = cb_idx + 1
            /\ UNCHANGED pc
       ELSE /\ pc' = "loop"
            /\ cb_idx' = 0
            /\ UNCHANGED log
    /\ UNCHANGED <<self, given, err, iteration, idx, spatial_idx, kwargs, calls>>

(* for idx in range(iteration): update_once(): update_source_model(), lines 210-211, 341-343 *)
UpdateSourceModel ==
    /\ pc = "loop"
    /\ idx < iteration
    /\ idx' = idx + 1
    /\ spatial_idx' = 0
    /\ LET r == update_source_model(self)
       IN /\ self' = r.obj
          /\ err' = r.exc
          /\ pc' = IF r.exc = "none" THEN "spatial" ELSE "raised"
          /\ log' = IF r.exc = "none" THEN Append(log, Event("source", idx + 1, 0)) ELSE log
    /\ UNCHANGED <<given, iteration, cb_idx, kwargs, calls>>

(* the inner loop running once more than spatial_iteration *)
UpdateSpatialModelOnceMore ==
    /\ pc = "spatial"
    /\ spatial_idx <= self.spatial_iteration
    /\ spatial_idx' = spatial_idx + 1
    /\ LET r == update_spatial_model(self)
       IN /\ self' = r.obj
          /\ err' = r.exc
          /\ pc' = IF r.exc = "none" THEN "spatial" ELSE "raised"
          /\ log' = IF r.exc = "none" THEN Append(log, Event("spatial", idx, 0)) ELSE log
    /\ UNCHANGED <<given, iteration, idx, cb_idx, kwargs, calls>>

(* for spatial_idx in range(spatial_iteration): update_spatial_model(), lines 345-346 *)
UpdateSpatialModel ==
    /\ pc = "spatial"
    /\ spatial_idx < self.spatial_iteration
    /\ spatial_idx' = spatial_idx + 1
    /\ LET r == update_spatial_model(self)
       IN /\ self' = r.obj
          /\ err' = r.exc
          /\ pc' = IF r.exc = "none" THEN "spatial" ELSE "raised"
          /\ log' = IF r.exc = "none" THEN Append(log, Event("spatial", idx, 0)) ELSE log
    /\ UNCHANGED <<given, iteration, idx, cb_idx, kwargs, calls>>

(* update_once() has returned: lines 213-215 *)
RecordLoss ==
    /\ pc = "spatial"
    /\ spatial_idx >= self.spatial_iteration
    /\ IF self.recordable_loss
       THEN AppendLoss("callbacks")
       ELSE /\ pc' = "callbacks"
            /\ UNCHANGED <<self, err, log>>
    /\ UNCHANGED <<given, iteration, idx, spatial_idx, cb_idx, kwargs, calls>>

(* a loop that may be left after any completed iteration *)
FinishEarly ==
    /\ pc = "loop"
    /\ idx = iteration \/ idx >= 1
    /\ IF ~HasAttr(self, "demix_filter")
       THEN /\ err' = "AttributeError"
            /\ pc' = "raised"
            /\ UNCHANGED self
       ELSE IF SeparateRaises(self)
       THEN /\ err' = "ValueError"
            /\ pc' = "raised"
            /\ UNCHANGED self
       ELSE /\ self' = SetAttr(self, "estimation", SeparateShape(self))
            /\ pc' = "done"
            /\ UNCHANGED err
    /\ UNCHANGED <<given, iteration, idx, spatial_idx, cb_idx, kwargs, calls, log>>

(* the loop is over: lines 221-230 *)
Finish ==
    /\ pc = "loop"
    /\ idx = iteration
    /\ IF ~HasAttr(self, "demix_filter")
       THEN /\ err' = "AttributeError"
            /\ pc' = "raised"
            /\ UNCHANGED self
       ELSE IF SeparateRaises(self)
       THEN /\ err' = "ValueError"
            /\ pc' = "raised"
            /\ UNCHANGED self
       ELSE /\ self' = SetAttr(self, "estimation", SeparateShape(self))
            /\ pc' = "done"
            /\ UNCHANGED err
    /\ UNCHANGED <<given, iteration, idx, spatial_idx, cb_idx, kwargs, calls, log>>

Next ==
    \/ NewGauss
    \/ NewT
    \/ Call
    \/ InitialLoss
    \/ Callbacks
    \/ UpdateSourceModel
    \/ UpdateSpatialModel
    \/ RecordLoss
    \/ Finish

Spec == Init /\ [][Next]_vars


-----------------------------------------------------------------------------
(* Properties *)

IsPrefix(a, b) == Len(a) <= Len(b) /\ SubSeq(b, 1, Len(a)) = a

InCall == pc \in {"initial_loss", "callbacks", "loop", "spatial", "done", "raised"}

InIteration(e) == e.it >= 1
IterLog == SelectSeq(log, InIteration)

RegisteredCallbacks == IF self.callbacks = None THEN <<>> ELSE self.callbacks.fs

(* what one iteration is to execute, in order *)
IterPattern(i) ==
    <<Event("source", i, 0)>>
    \o [j \in 1..self.spatial_iteration |-> Event("spatial", i, 0)]
    \o (IF self.recordable_loss THEN <<Event("loss", i, 0)>> ELSE <<>>)
    \o [j \in 1..Len(RegisteredCallbacks) |-> Event("callback", i, RegisteredCallbacks[j])]

RECURSIVE ExpectedIterations(_)
ExpectedIterations(n) ==
    IF n = 0 THEN <<>> ELSE ExpectedIterations(n - 1) \o IterPattern(n)

(* C1: in every iteration of a run the steps happen in the order: one
   source-model update, exactly spatial_iteration spatial-model updates, the
   loss recording (when enabled), every callback; what a call has executed is
   at any time a prefix of that sequence, it is the whole sequence of idx
   iterations whenever control is at the loop head (so no step of iteration
   idx + 1 precedes the callbacks of iteration idx), and a call that returns
   has executed the sequence of all its iterations. *)
C1_IterationOrder ==
    InCall =>
        /\ IsPrefix(IterLog, ExpectedIterations(iteration))
        /\ pc = "loop" => IterLog = ExpectedIterations(idx)
        /\ pc = "done" => IterLog = ExpectedIterations(iteration)

C1_Witness ==
    /\ pc = "done"
    /\ iteration = 2
    /\ self.recordable_loss
    /\ Len(RegisteredCallbacks) = 2
    /\ self.spatial_iteration = KONDO_SPATIAL_ITERATION
    /\ Len(IterLog) = 2 * (1 + KONDO_SPATIAL_ITERATION + 1 + 2)

(* C2: with recordable_loss, the first call on a fresh instance, of N
   iterations, leaves N + 1 losses, the first computed before any update and
   the (j+1)-th after j source-model updates; and no step ever removes or
   rewrites a recorded loss. *)
C2_LossTraceState ==
    (pc = "done" /\ calls = 1 /\ self.recordable_loss) =>
        /\ Len(self.loss.fs) = iteration + 1
        /\ \A j \in 0..iteration :
              /\ self.loss.fs[j + 1].source = j
              /\ self.loss.fs[j + 1].spatial = j * self.spatial_iteration

C2_LossAppendOnly ==
    (HasAttr(self, "loss") /\ self.loss # None) =>
        (HasAttr(self', "loss") /\ self'.loss # None /\ IsPrefix(self.loss.fs, self'.loss.fs))

C2_LossTrace == [](C2_LossTraceState) /\ [][C2_LossAppendOnly]_vars

C2_Witness ==
    /\ pc = "done"
    /\ calls = 1
    /\ self.recordable_loss
    /\ iteration = 1
    /\ Len(self.loss.fs) = 2

RECURSIVE CountCallback(_, _)
CountCallback(l, f) ==
    IF l = <<>> THEN 0
    ELSE (IF l[1].op = "callback" /\ l[1].f = f THEN 1 ELSE 0) + CountCallback(Tail(l), f)

RECURSIVE CountIn(_, _, _)
CountIn(l, op, i) ==
    IF l = <<>> THEN 0
    ELSE (IF l[1].op = op /\ l[1].it = i THEN 1 ELSE 0) + CountIn(Tail(l), op, i)

InIterationOf(l, i) == LET Test(e) == e.it = i IN SelectSeq(l, Test)

(* C3, as stated: over a run of N iterations every registered callback is
   called exactly N times. *)
C3_CallbackCountOriginal ==
    pc = "done" =>
        \A j \in 1..Len(RegisteredCallbacks) :
            CountCallback(log, RegisteredCallbacks[j]) = iteration

(* C3, amended: every registered callback is called once after
   initialization, before the first iteration, and exactly once in each
   iteration: N + 1 times over a run of N iterations. *)
C3_CallbackCount ==
    pc = "done" =>
        \A j \in 1..Len(RegisteredCallbacks) :
            /\ CountCallback(log, RegisteredCallbacks[j]) = iteration + 1
            /\ \A i \in 0..iteration :
                  CountCallback(InIterationOf(log, i), RegisteredCallbacks[j]) = 1

C3_Witness ==
    /\ pc = "done"
    /\ iteration = 2
    /\ Len(RegisteredCallbacks) = 2
    /\ CountCallback(log, RegisteredCallbacks[2]) = 3

(* the spatial_iteration the caller supplied to the constructor, the variant's
   preset value when the caller supplied none *)
SuppliedSpatialIteration ==
    IF given.spatial_iteration # None THEN given.spatial_iteration.v
    ELSE IF Lower(given.author) = "ikeshita" THEN IKESHITA_SPATIAL_ITERATION
    ELSE KONDO_SPATIAL_ITERATION

(* C4: the number of spatial-model updates per source-model update equals the
   spatial_iteration supplied at construction, the preset value only when
   none was supplied. *)
C4_SuppliedSpatialIteration ==
    (pc = "callbacks" /\ idx >= 1 /\ calls = 1 /\ kwargs = NoKwargs) =>
        CountIn(log, "spatial", idx) = SuppliedSpatialIteration

NBlocksInRange ==
    HasAttr(self, "n_blocks") /\ 1 <= self.n_blocks /\ self.n_blocks <= self.input.n_bins

(* C5: with the VCD spatial update selected and a partition with remainder,
   the run fails with the explicit unsupported-configuration error, and no
   source-model or spatial-model update executes before it. *)
C5_VcdRemainderFailsFirst ==
    (/\ InCall /\ calls = 1 /\ kwargs = NoKwargs
     /\ Lower(self.author) = "kondo"
     /\ NBlocksInRange
     /\ self.input.n_bins % self.n_blocks # 0) =>
        /\ CountOp(log, "source") = 0
        /\ CountOp(log, "spatial") = 0
        /\ pc = "raised" => err = "NotImplementedError"

(* C6: with n_blocks outside [1, n_bins] the call raises at once: no loss is
   recorded, no callback is invoked, no update executes. *)
C6_NBlocksOutOfRange ==
    (/\ InCall /\ calls = 1 /\ DOMAIN kwargs \subseteq {"n_blocks"}
     /\ Lower(self.author) \in authors_ipsdta
     /\ ~NBlocksInRange) =>
        /\ pc = "raised"
        /\ log = <<>>

(* a warm-start array of the call whose shape or form differs from what the
   configuration asks for *)
WarmStartMismatch ==
    \/ /\ "activation" \in DOMAIN kwargs
       /\ kwargs.activation.frames # self.input.n_frames
    \/ /\ "demix_filter" \in DOMAIN kwargs
       /\ kwargs.demix_filter.bins # self.input.n_bins
    \/ /\ "basis" \in DOMAIN kwargs
       /\ kwargs.basis.form #
              (IF self.input.n_bins % self.n_blocks > 0 THEN "pair" ELSE "single")

(* C7: a warm-start Basis, Activation or DemixingMatrix that does not match
   the configuration makes the call raise before the run starts. *)
C7_WarmStartMismatch ==
    (InCall /\ calls = 1 /\ NBlocksInRange /\ WarmStartMismatch) =>
        /\ pc = "raised"
        /\ log = <<>>

ValidCtor(a) ==
    /\ Lower(a.author) \in {"ikeshita", "kondo"}
    /\ DOMAIN a.kwargs \subseteq {"n_blocks", "spatial_iteration"}

(* C8: GaussIPSDTA(...) returns an instance only for a supported variant name
   (compared case-insensitively) with recognized keyword options; otherwise
   it raises ValueError and there is no instance. *)
C8_Construction ==
    /\ pc = "failed" => (~ValidCtor(given) /\ err = "ValueError" /\ self = NoInstance)
    /\ pc = "idle" => (ValidCtor(given) /\ err = "none" /\ self # NoInstance
                        /\ self.author = given.author)

C8_Witness ==
    /\ pc = "failed"
    /\ Lower(given.author) = "ikeshita"
    /\ given.author # "ikeshita"
    /\ "bogus" \in DOMAIN given.kwargs

(* C9: tIPSDTA(...) raises for every combination of arguments; no instance
   results and no call can start. *)
C9_TNeverConstructs ==
    /\ pc # "idle_t"
    /\ pc = "failed_t" =>
          (err \in {"ValueError", "NotImplementedError"} /\ self = NoInstance /\ calls = 0)

C9_Witness ==
    /\ pc = "failed_t"
    /\ err = "NotImplementedError"
    /\ Lower(given.author) = "kondo"
    /\ given.kwargs = [n_blocks |-> NBins \div 2]

-----------------------------------------------------------------------------
(* The block partition on its own: an instance constructed with n_blocks, then
   reset on an input of n_bins bins *)

PartitionCtorArgs ==
    {[author |-> "Ikeshita", kwargs |-> [n_blocks |-> b], spatial_iteration |-> None,
      n_basis |-> 1, normalize |-> FALSE, recordable_loss |-> FALSE, callbacks |-> None]
        : b \in 0..(MaxBinsP + 1)}

PartitionInputs ==
    {[n_channels |-> NChannels, n_bins |-> n, n_frames |-> NFrames] : n \in 1..MaxBinsP}

InitPartition ==
    /\ \E a \in PartitionCtorArgs :
          /\ given = a
          /\ self = GaussInit(a).obj
    /\ pc = "idle"
    /\ err = "none"
    /\ iteration = 0
    /\ idx = 0
    /\ spatial_idx = 0
    /\ cb_idx = 0
    /\ kwargs = NoKwargs
    /\ calls = 0
    /\ log = <<>>

(* self.input = input; self._reset(): lines 198-200, 232-239 *)
ResetBlock ==
    /\ pc = "idle"
    /\ \E x \in PartitionInputs :
         LET r == reset(SetAttr(self, "input", x), NoKwargs)
         IN /\ self' = r.obj
            /\ err' = r.exc
            /\ pc' = IF r.exc = "none" THEN "reset" ELSE "raised"
    /\ calls' = calls + 1
    /\ UNCHANGED <<given, iteration, idx, spatial_idx, cb_idx, kwargs, log>>

NextPartition == ResetBlock

SpecPartition == InitPartition /\ [][NextPartition]_vars

(* The sizes of the blocks of a basis, in the order of the bins *)
RECURSIVE BlockSizes(_)
BlockSizes(shape) ==
    IF shape = <<>> THEN <<>>
    ELSE [i \in 1..shape[1][1] |-> shape[1][2]] \o BlockSizes(Tail(shape))

RECURSIVE SumSeq(_)
SumSeq(q) == IF q = <<>> THEN 0 ELSE q[1] + SumSeq(Tail(q))

(* np.split(Y, [(n_blocks - n_remains) * n_neighbors], axis=2), lines 414, 483,
   559, 676: the number of bins of the low part and of the high part *)
SplitBins(o) ==
    <<(o.n_blocks - o.n_remains) * o.n_neighbors,
      o.n_bins - (o.n_blocks - o.n_remains) * o.n_neighbors>>

(* C10: for 1 <= n_blocks <= n_bins the partition is n_blocks - r blocks of
   size k followed by r blocks of size k + 1, with k = n_bins // n_blocks and
   r = n_bins % n_blocks; the sizes sum to n_bins, and the bins the updates
   split off for the larger blocks are exactly r * (k + 1). *)
C10_BlockPartition ==
    (pc = "reset" /\ 1 <= self.n_blocks /\ self.n_blocks <= self.input.n_bins) =>
        LET n == self.input.n_bins
            b == self.n_blocks
            k == n \div b
            r == n % b
            sizes == BlockSizes(self.basis.shape)
        IN /\ sizes = [i \in 1..b |-> IF i <= b - r THEN k ELSE k + 1]
           /\ SumSeq(sizes) = n
           /\ SplitBins(self) = <<(b - r) * k, r * (k + 1)>>

C10_Witness ==
    /\ pc = "reset"
    /\ self.input.n_bins = 4
    /\ self.n_blocks = 3
    /\ BlockSizes(self.basis.shape) = <<1, 1, 2>>

-----------------------------------------------------------------------------
(* The fixed-point spatial update on its own: an ikeshita instance constructed
   with n_blocks, reset on an input of n_bins bins, then one spatial update *)

(* self.update_spatial_model(), lines 380-388, on a freshly reset instance *)
FixedPointUpdate ==
    /\ pc = "reset"
    /\ LET r == update_spatial_model(self)
       IN /\ self' = r.obj
          /\ err' = r.exc
          /\ pc' = IF r.exc = "none" THEN "updated" ELSE "raised"
          /\ log' = IF r.exc = "none" THEN Append(log, Event("spatial", 1, 0)) ELSE log
    /\ UNCHANGED <<given, iteration, idx, spatial_idx, cb_idx, kwargs, calls>>

NextFixedPoint ==
    \/ ResetBlock
    \/ FixedPointUpdate

SpecFixedPoint == InitPartition /\ [][NextFixedPoint]_vars

(* C11: after a fixed-point spatial update, for uniform and remainder
   partitions alike, the new Lambda entry computed for bin f is stored at
   index f of fixed_point, and the new demixing row computed for bin f
   (every channel c of it) is stored at index f of demix_filter. *)
C11_BinIndexRoundTrip ==
    pc = "updated" =>
        /\ self.fixed_point.bin_of = [f \in 1..self.n_bins |-> f - 1]
        /\ self.demix_filter.bin_of =
              [f \in 1..self.n_bins |-> [c \in 1..self.n_channels |-> <<f - 1, c - 1>>]]

C11_Witness ==
    /\ pc = "updated"
    /\ self.n_bins = 7
    /\ self.n_blocks = 3
    /\ self.n_remains = 1
    /\ self.fixed_point.bin_of[7] = 6
    /\ self.demix_filter.bin_of[5][2] = <<4, 1>>

-----------------------------------------------------------------------------
(* The values of basis and activation.  A real number is a fraction <<n, d>>
   in lowest terms with d > 0.  Of a block of U the model keeps the trace: a
   block is only ever replaced as a whole or divided by a real number, so
   its entries and its trace are scaled alike. *)

RECURSIVE GCD(_, _)
GCD(a, b) == IF b = 0 THEN a ELSE GCD(b, a % b)

Frac(n, d) == LET g == GCD(n, d) IN IF n = 0 THEN <<0, 1>> ELSE <<n \div g, d \div g>>
RMul(x, y) == Frac(x[1] * y[1], x[2] * y[2])
RDiv(x, y) == Frac(x[1] * y[2], x[2] * y[1])
RAdd(x, y) == Frac(x[1] * y[2] + y[1] * x[2], x[2] * y[2])
RLess(x, y) == x[1] * y[2] < y[1] * x[2]

RECURSIVE RSum(_)
RSum(q) == IF q = <<>> THEN <<0, 1>> ELSE RAdd(q[1], RSum(Tail(q)))

(* trace = np.concatenate([trace_low, trace_high]).sum(): the total over the
   blocks of all groups, for atom a.  tr[g][a][b] is the trace of block b of
   group g for atom a. *)
RECURSIVE TraceTotal(_, _)
TraceTotal(tr, a) ==
    IF tr = <<>> THEN <<0, 1>> ELSE RAdd(RSum(tr[1][a]), TraceTotal(Tail(tr), a))

(* a pass that takes the total over the first group only *)
TraceNormalizeFirstGroupOnly(o) ==
    LET tr == o.basis.tr
        total(a) == RSum(tr[1][a])
    IN SetAttrs(o, [basis |-> [o.basis EXCEPT
                        !.tr = [g \in DOMAIN tr |-> [a \in DOMAIN tr[g] |->
                                  [b \in DOMAIN tr[g][a] |-> RDiv(tr[g][a][b], total(a))]]],
                        !.projected = FALSE],
                    activation |-> [o.activation EXCEPT
                        !.v = [a \in DOMAIN o.activation.v |->
                                  RMul(o.activation.v[a], total(a))]]])

(* a pass that divides the basis and leaves the activation *)
TraceNormalizeBasisOnly(o) ==
    LET tr == o.basis.tr
        total(a) == TraceTotal(tr, a)
    IN SetAttrs(o, [basis |-> [o.basis EXCEPT
                        !.tr = [g \in DOMAIN tr |-> [a \in DOMAIN tr[g] |->
                                  [b \in DOMAIN tr[g][a] |-> RDiv(tr[g][a][b], total(a))]]],
                        !.projected = FALSE],
                    activation |-> o.activation])

(* the normalization pass, lines 299-315 and 356-378: U / trace, V * trace,
   the result stored as computed *)
TraceNormalize(o) ==
    LET tr == o.basis.tr
        total(a) == TraceTotal(tr, a)
    IN SetAttrs(o, [basis |-> [o.basis EXCEPT
                        !.tr = [g \in DOMAIN tr |-> [a \in DOMAIN tr[g] |->
                                  [b \in DOMAIN tr[g][a] |-> RDiv(tr[g][a][b], total(a))]]],
                        !.projected = FALSE],
                    activation |-> [o.activation EXCEPT
                        !.v = [a \in DOMAIN o.activation.v |->
                                  RMul(o.activation.v[a], total(a))]]])

(* V[V < eps] = eps, lines 437 and 460: in place, on the array self.activation *)
FloorEps(v, eps) == [a \in DOMAIN v |-> IF RLess(v[a], eps) THEN eps ELSE v[a]]

(* update_basis_em, lines 398-465: the activation is floored in place, the new
   basis U is the output of to_PSD *)
update_basis_em_values(o, U) ==
    SetAttrs(o, [basis |-> [o.basis EXCEPT !.tr = U, !.projected = TRUE],
                 activation |-> [o.activation EXCEPT !.v = FloorEps(@, o.eps)]])

(* trace[trace < 0] = 0, line 537 *)
ClipAtZero(q) == [b \in DOMAIN q |-> IF RLess(q[b], <<0, 1>>) THEN <<0, 1>> ELSE q[b]]

(* the total taken first and clipped afterwards *)
em_activation_of_trace_clip_after_sum(trace, n_bins) ==
    [a \in DOMAIN trace |->
        LET t == RSum(trace[a])
        IN RDiv(IF RLess(t, <<0, 1>>) THEN <<0, 1>> ELSE t, <<n_bins, 1>>)]

(* lines 537-539: trace (n_basis, n_blocks) for one source and frame is
   clipped, summed over the blocks (axis 3) and divided by n_bins *)
em_activation_of_trace(trace, n_bins) ==
    [a \in DOMAIN trace |-> RDiv(RSum(ClipAtZero(trace[a])), <<n_bins, 1>>)]

(* update_activation_em, lines 467-541: U = self.basis (line 478) is the
   basis inverted at lines 506 and 531, kept here as inv_basis;
   trace[trace < 0] = 0; V = trace / n_bins *)
update_activation_em_values(o, V) ==
    SetAttr(o, "activation",
            [inv_basis |-> o.basis.tr] @@ [o.activation EXCEPT !.v = V])

(* update_basis_mm, lines 543-656: the new basis U is the output of to_PSD *)
update_basis_mm_values(o, U) ==
    SetAttr(o, "basis", [o.basis EXCEPT !.tr = U, !.projected = TRUE])

(* update_activation_mm, lines 658-719: V = V * np.sqrt(numerator / denominator),
   m the value of the square root *)
update_activation_mm_values(o, m) ==
    SetAttr(o, "activation",
            [o.activation EXCEPT !.v = [a \in DOMAIN @ |-> RMul(@[a], m[a])]])

(* update_source_model_em, lines 390-392: the shapes must fit, then the
   basis and the activation are updated by the EM rules; U is what the basis
   update computes, V what the activation update computes (the trace average
   for EM, the square root factor for MM) *)
update_source_model_em_values(o, U, V) ==
    LET r == source_model_em_mm(o)
        keep == [basis |-> o.basis,
                 activation |-> [o.activation EXCEPT !.frames = r.obj.activation.frames]]
    IN IF r.exc # "none" THEN r
       ELSE Ok(update_activation_em_values(update_basis_em_values(SetAttrs(r.obj, keep), U), V))

(* update_source_model_mm, lines 394-396 *)
update_source_model_mm_values(o, U, V) ==
    LET r == source_model_em_mm(o)
        keep == [basis |-> o.basis,
                 activation |-> [o.activation EXCEPT !.frames = r.obj.activation.frames]]
    IN IF r.exc # "none" THEN r
       ELSE Ok(update_activation_mm_values(update_basis_mm_values(SetAttrs(r.obj, keep), U), V))

(* update_source_model before the normalisation, lines 348-354 *)
source_model_values(o, U, V) ==
    IF Lower(o.author) = "ikeshita" THEN update_source_model_em_values(o, U, V)
    ELSE IF Lower(o.author) = "kondo" THEN update_source_model_mm_values(o, U, V)
    ELSE Raise("NotImplementedError", o)

(* update_source_model, lines 348-378, with the values *)
update_source_model_values(o, U, V) ==
    LET r == source_model_values(o, U, V)
    IN IF r.exc # "none" THEN r
       ELSE Ok(IF o.normalize THEN TraceNormalize(r.obj) ELSE r.obj)

(* for spatial_idx in range(spatial_iteration): self.update_spatial_model() *)
RECURSIVE RepeatSpatial(_, _)
RepeatSpatial(r, n) ==
    IF n = 0 \/ r.exc # "none" THEN r
    ELSE RepeatSpatial(update_spatial_model(r.obj), n - 1)

(* update_once, lines 341-346, with the values *)
update_once_values(o, U, V) ==
    RepeatSpatial(update_source_model_values(o, U, V), o.spatial_iteration)

(* _reset up to the normalization, lines 232-297, with the values: U and V
   what np.random.rand gives for the basis and for the activation; a basis
   or an activation the caller supplied is copied *)
reset_init_values(o, kw, U, V) ==
    LET r == reset(o, kw)
        b == IF "tr" \in DOMAIN r.obj.basis THEN r.obj.basis
             ELSE [tr |-> U, projected |-> FALSE] @@ r.obj.basis
        v == IF "v" \in DOMAIN r.obj.activation THEN r.obj.activation
             ELSE [v |-> V] @@ r.obj.activation
    IN IF r.exc # "none" THEN r
       ELSE Ok(SetAttrs(r.obj, [basis |-> b, activation |-> v]))

(* _reset, lines 232-328, with the values *)
reset_values(o, kw, U, V) ==
    LET r == reset_init_values(o, kw, U, V)
    IN IF r.exc # "none" THEN r
       ELSE Ok(IF o.normalize THEN TraceNormalize(r.obj) ELSE r.obj)

-----------------------------------------------------------------------------
(* Runs with values *)

NBasis == 2
EpsDen == 4
MaxIterValues == 1

(* the traces of the blocks of a basis of the shape of o.basis: all equal, or
   different for every group, atom and block *)
BasisValues(o) ==
    LET sh == o.basis.shape
    IN {[g \in DOMAIN sh |-> [a \in 1..o.n_basis |-> [b \in 1..sh[g][1] |-> <<1, 1>>]]],
        [g \in DOMAIN sh |-> [a \in 1..o.n_basis |-> [b \in 1..sh[g][1] |->
                                                        <<g + a + b, 1>>]]]}

(* what np.random.rand can give for the diagonals of a fresh basis, lines
   268-283: entries in [0, 1), so block traces of any size from 0 up, here
   also traces whose total over the blocks is below eps *)
RandomBasisValues(o) ==
    LET sh == o.basis.shape
    IN BasisValues(o) \cup
       {[g \in DOMAIN sh |-> [a \in 1..o.n_basis |-> [b \in 1..sh[g][1] |->
            RDiv(o.eps, <<o.n_bins + 1, 1>>)]]]}

(* nonnegative reals, one per atom: zero, below eps, eps, above eps *)
ActivationValues(o) ==
    {[a \in 1..o.n_basis |-> <<0, 1>>],
     [a \in 1..o.n_basis |-> RDiv(o.eps, <<2, 1>>)],
     [a \in 1..o.n_basis |-> o.eps],
     [a \in 1..o.n_basis |-> <<a, 1>>]}

ValueCtorArgs ==
    {[author |-> au, kwargs |-> [n_blocks |-> b], spatial_iteration |-> None,
      n_basis |-> NBasis, normalize |-> nm, recordable_loss |-> FALSE, callbacks |-> None]
        : au \in {"Ikeshita", "kondo"}, b \in {NBins \div 2, NBins - 1}, nm \in BOOLEAN}
    \cup
    {[author |-> au, kwargs |-> NoKwargs, spatial_iteration |-> None,
      n_basis |-> NBasis, normalize |-> FALSE, recordable_loss |-> FALSE, callbacks |-> None]
        : au \in {"Ikeshita", "kondo"}}

(* the values a step has stored *)
Stored(o) ==
    [tr |-> o.basis.tr, v |-> o.activation.v,
     inv_basis |-> IF "inv_basis" \in DOMAIN o.activation
                   THEN o.activation.inv_basis ELSE <<>>]

(* GaussIPSDTA(..., eps=eps): line 34 keeps eps *)
InitValues ==
    /\ \E a \in ValueCtorArgs :
          /\ given = a
          /\ self = SetAttr(GaussInit(a).obj, "eps", <<1, EpsDen>>)
    /\ pc = "idle"
    /\ err = "none"
    /\ iteration = 0
    /\ idx = 0
    /\ spatial_idx = 0
    /\ cb_idx = 0
    /\ kwargs = NoKwargs
    /\ calls = 0
    /\ log = <<>>

(* ipsdta(input, iteration=n), ipsdta(input, iteration=n, activation=V0) or
   ipsdta(input, iteration=n, algorithm_spatial=name): lines 198-200 *)
CallValues ==
    /\ pc = "idle"
    /\ \E x \in Inputs, n \in 0..MaxIterValues, V \in ActivationValues(self),
          kw \in {NoKwargs, [algorithm_spatial |-> "VCD"],
                  [algorithm_spatial |-> "fixed-point"]}
                 \cup {[activation |-> [frames |-> NFrames, v |-> V0]]
                          : V0 \in ActivationValues(self)} :
       \E U \in RandomBasisValues(reset(SetAttr(self, "input", x), kw).obj) :
         LET r == reset_values(SetAttr(self, "input", x), kw, U, V)
         IN /\ self' = r.obj
            /\ err' = r.exc
            /\ pc' = IF r.exc = "none" THEN "loop" ELSE "raised"
            /\ iteration' = n
            /\ kwargs' = kw
            /\ log' = IF r.exc # "none" THEN <<>>
                       ELSE <<Event("init", 0,
                                    Stored(reset_init_values(SetAttr(self, "input", x),
                                                             kw, U, V).obj))>>
                            \o (IF self.normalize
                                THEN <<Event("normalize", 0, Stored(r.obj))>> ELSE <<>>)
    /\ calls' = calls + 1
    /\ UNCHANGED <<given, idx, spatial_idx, cb_idx>>

(* self.update_once(), line 211 *)
UpdateOnceValues ==
    /\ pc = "loop"
    /\ idx < iteration
    /\ \E U \in BasisValues(self), V \in ActivationValues(self) :
         LET r == update_once_values(self, U, V)
         IN /\ self' = r.obj
            /\ err' = r.exc
            /\ pc' = IF r.exc = "none" THEN "loop" ELSE "raised"
            /\ log' = log \o <<Event("source", idx + 1,
                                      Stored(source_model_values(self, U, V).obj))>>
                           \o (IF self.normalize
                               THEN <<Event("normalize", idx + 1, Stored(r.obj))>> ELSE <<>>)
    /\ idx' = idx + 1
    /\ UNCHANGED <<given, iteration, spatial_idx, cb_idx, kwargs, calls>>

NextValues ==
    \/ CallValues
    \/ UpdateOnceValues

SpecValues == InitValues /\ [][NextValues]_vars

(* U * V, for every group, atom and block *)
Products(st) ==
    [g \in DOMAIN st.tr |-> [a \in DOMAIN st.tr[g] |-> [b \in DOMAIN st.tr[g][a] |->
        RMul(st.tr[g][a][b], st.v[a])]]]

Observable == pc \in {"loop", "raised"} /\ HasAttr(self, "basis") /\ "tr" \in DOMAIN self.basis

(* C12: with normalize, after initialization and after every source-model
   update, for every atom the traces of all blocks, of the low-size and of
   the high-size group together, sum to 1. *)
C12_TraceSumOne ==
    (Observable /\ self.normalize) =>
        \A a \in 1..self.n_basis : TraceTotal(self.basis.tr, a) = <<1, 1>>

C12_Witness ==
    /\ pc = "loop"
    /\ self.normalize
    /\ idx = 1
    /\ self.n_remains > 0
    /\ self.basis.tr[2][2][1] # self.basis.tr[1][2][1]

(* C13: a normalization pass leaves U * V as it was, for every atom and
   block: what it stores has the products of what the step before it stored. *)
C13_NormalizePreservesProduct ==
    \A i \in 2..Len(log) :
        log[i].op = "normalize" => Products(log[i].f) = Products(log[i - 1].f)

C13_Witness ==
    /\ Len(log) = 4
    /\ log[4].op = "normalize"
    /\ log[4].f.tr # log[3].f.tr
    /\ log[4].f.v # log[3].f.v

(* C14: every activation entry is at least eps after initialization and after
   each source-model update. *)
C14_ActivationAtLeastEps ==
    Observable => \A a \in 1..self.n_basis : ~RLess(self.activation.v[a], self.eps)

(* C15: the stored basis is always what the PSD projection returned: every
   operation that writes it projects after its last modification. *)
C15_BasisIsProjectorOutput ==
    Observable => self.basis.projected

(* C16: the output a run returns has the shape of its input,
   (n_sources, n_bins, n_frames), for any iteration count >= 0 and for
   uniform and remainder partitions. *)
C16_OutputShape ==
    pc = "done" =>
        self.estimation = <<self.input.n_channels, self.input.n_bins, self.input.n_frames>>

C16_Witness ==
    /\ pc = "done"
    /\ iteration = 0
    /\ self.n_remains > 0
    /\ NBlocksInRange
    /\ self.estimation = <<NChannels, NBins, NFrames>>

(* C17: a run that raises no error has executed update_once exactly
   `iteration` times when it returns: one source-model update and
   spatial_iteration spatial-model updates per iteration, no fewer and no
   more; and every run that has started ends, by returning or by raising:
   the loop counter never passes `iteration` (so the loop always has its
   body or its exit to execute, as every other position has a statement),
   and each statement executed leaves fewer to execute. *)
C17_ExactIterationsState ==
    pc = "done" =>
        /\ idx = iteration
        /\ CountOp(log, "source") = iteration
        /\ CountOp(log, "spatial") = iteration * self.spatial_iteration

Running == pc \in {"initial_loss", "callbacks", "loop", "spatial"}

NCallbacks == IF self.callbacks = None THEN 0 ELSE Len(self.callbacks.fs)

(* the statements one pass of the loop body executes: lines 210-219 *)
StepsPerIteration == self.spatial_iteration + NCallbacks + 3

StepsFromLoop(i) == (iteration - i) * StepsPerIteration + 1

(* the number of statements a run still has to execute before it returns *)
StepsLeft(at, i, s, c) ==
    CASE at = "initial_loss" -> 1 + NCallbacks + 1 + StepsFromLoop(0)
      [] at = "callbacks" -> (NCallbacks - c) + 1 + StepsFromLoop(i)
      [] at = "loop" -> StepsFromLoop(i)
      [] at = "spatial" -> (self.spatial_iteration - s) + 1 + NCallbacks + 1 + StepsFromLoop(i)
      [] OTHER -> 0

C17_ExactIterations ==
    /\ [](C17_ExactIterationsState)
    /\ [](pc = "loop" => idx <= iteration)
    /\ [][Running => /\ StepsLeft(pc, idx, spatial_idx, cb_idx) > 0
                     /\ StepsLeft(pc', idx', spatial_idx', cb_idx')
                            < StepsLeft(pc, idx, spatial_idx, cb_idx)]_vars

C17_Witness ==
    /\ pc = "done"
    /\ iteration = MaxIter
    /\ self.recordable_loss
    /\ CountOp(log, "source") = MaxIter

(* C18: the author alone determines which update rules run: ikeshita runs
   the EM source update and the fixed-point spatial update, kondo the MM
   source update and the VCD spatial update, whatever else the caller
   passes; with no constructor overrides both use n_blocks = 1024, with
   spatial_iteration 1 for ikeshita and 10 for kondo. *)
C18_VariantSelectsRules ==
    /\ given.kwargs = NoKwargs =>
           /\ self.n_blocks = PRESET_N_BLOCKS
           /\ self.spatial_iteration = IF Lower(self.author) = "ikeshita"
                                       THEN IKESHITA_SPATIAL_ITERATION
                                       ELSE KONDO_SPATIAL_ITERATION
    /\ pc = "loop" =>
           /\ Lower(self.author) = "ikeshita" =>
                  /\ self.algorithm_spatial = "fixed-point"
                  /\ update_spatial_model(self) = update_spatial_model_fixed_point(self)
                  /\ \A U \in BasisValues(self), V \in ActivationValues(self) :
                         source_model_values(self, U, V)
                             = update_source_model_em_values(self, U, V)
           /\ Lower(self.author) = "kondo" =>
                  /\ self.algorithm_spatial = "VCD"
                  /\ update_spatial_model(self) = update_spatial_model_vcd(self)
                  /\ \A U \in BasisValues(self), V \in ActivationValues(self) :
                         source_model_values(self, U, V)
                             = update_source_model_mm_values(self, U, V)

C18_Witness ==
    /\ pc = "loop"
    /\ idx = 1
    /\ Lower(self.author) = "kondo"
    /\ kwargs = [algorithm_spatial |-> "fixed-point"]
    /\ self.algorithm_spatial = "VCD"
    /\ ~HasAttr(self, "fixed_point")

(* C19: the auxiliary vector Lambda (fixed_point) belongs to the fixed-point
   variant: a reset creates it, as all ones with one entry per bin of each
   source, only for ikeshita and only when the instance has none; a reset
   that finds one keeps it unchanged; afterwards only the fixed-point
   spatial update replaces it; under kondo (VCD) the engine never creates or
   writes it, so an instance has one only if the caller put it there. *)
FixedPointChanged ==
    \/ HasAttr(self, "fixed_point") # HasAttr(self', "fixed_point")
    \/ /\ HasAttr(self, "fixed_point")
       /\ HasAttr(self', "fixed_point")
       /\ self'.fixed_point # self.fixed_point

C19_FixedPointStep ==
    FixedPointChanged =>
        \/ /\ calls' = calls + 1
           /\ "fixed_point" \in DOMAIN kwargs'
           /\ HasAttr(self', "fixed_point")
           /\ np_copy(self'.fixed_point) = np_copy(kwargs'.fixed_point)
        \/ /\ calls' = calls + 1
           /\ "fixed_point" \notin DOMAIN kwargs'
           /\ ~HasAttr(self, "fixed_point")
           /\ Lower(self'.author) = "ikeshita"
           /\ self'.algorithm_spatial = "fixed-point"
           /\ self'.fixed_point = [bins |-> self'.n_bins, ones |-> TRUE]
        \/ /\ pc = "spatial"
           /\ spatial_idx' = spatial_idx + 1
           /\ self.algorithm_spatial = "fixed-point"
           /\ HasAttr(self', "fixed_point")
           /\ self'.fixed_point.bins = self.n_bins

C19_FixedPointState ==
    /\ (InCall /\ HasAttr(self, "algorithm_spatial")
           /\ self.algorithm_spatial = "fixed-point") => HasAttr(self, "fixed_point")
    /\ (InCall /\ Lower(self.author) = "kondo" /\ HasAttr(self, "fixed_point")) =>
           [fixed_point |-> np_copy(self.fixed_point)] \in WarmFixedPoint

C19_FixedPoint ==
    /\ [](C19_FixedPointState)
    /\ [][C19_FixedPointStep]_vars

C19_Witness ==
    /\ pc = "done"
    /\ calls = 2
    /\ iteration = 0
    /\ Lower(self.author) = "ikeshita"
    /\ HasAttr(self, "fixed_point")
    /\ ~self.fixed_point.ones
    /\ [fixed_point |-> self.fixed_point] \notin WarmFixedPoint

(* C20: in the run with n_bins = 4, n_blocks = 3 (blocks of 1, 1 and 2 bins),
   2 channels, 3 frames and one iteration, where the source model is updated
   by the MM rule (author kondo, the only configuration that selects it),
   the run raises no error. *)
ScenarioB ==
    /\ InCall
    /\ calls = 1
    /\ kwargs = NoKwargs
    /\ iteration = 1
    /\ Lower(self.author) = "kondo"
    /\ self.n_blocks = 3
    /\ np_copy(self.input) = [n_channels |-> 2, n_bins |-> 4, n_frames |-> 3]

C20_ScenarioBCompletes ==
    ScenarioB => pc # "raised"

(* C21: no update divides by a value smaller than eps; in particular the
   trace total by which a normalization pass divides the basis, for every
   atom, is at least eps.  The total is taken from what the step before the
   pass stored (the initialization or the source-model update). *)
C21_DivisorsAtLeastEps ==
    \A i \in 1..Len(log) :
        (self.normalize /\ log[i].op \in {"init", "source"}) =>
            \A a \in DOMAIN log[i].f.v : ~RLess(TraceTotal(log[i].f.tr, a), self.eps)

(* C23: in one EM source-model update the activation update inverts the old
   basis, the one stored before this update's basis update wrote a new one. *)
C23_ActivationUsesOldBasis ==
    \A i \in 2..Len(log) :
        (log[i].op = "source" /\ Lower(self.author) = "ikeshita") =>
            log[i].f.inv_basis = log[i - 1].f.tr

-----------------------------------------------------------------------------
(* The EM activation update on given per-block traces *)

(* real parts of trace(U^-1 Phi) of a block: negative, zero and positive *)
TraceSamples == {<<0 - 2, 1>>, <<0 - 1, 1>>, <<0, 1>>, <<1, 1>>, <<3, 1>>}

EmTraces(o) == [1..o.n_basis -> [1..o.n_blocks -> TraceSamples]]

EmCtorArgs ==
    {[author |-> "Ikeshita", kwargs |-> [n_blocks |-> b], spatial_iteration |-> None,
      n_basis |-> 1, normalize |-> FALSE, recordable_loss |-> FALSE, callbacks |-> None]
        : b \in {NBins \div 2, NBins - 1}}

InitEmActivation ==
    /\ \E a \in EmCtorArgs :
          /\ given = a
          /\ self = GaussInit(a).obj
    /\ pc = "idle"
    /\ err = "none"
    /\ iteration = 0
    /\ idx = 0
    /\ spatial_idx = 0
    /\ cb_idx = 0
    /\ kwargs = NoKwargs
    /\ calls = 0
    /\ log = <<>>

(* self.input = input; self._reset(): lines 198-200 *)
EmReset ==
    /\ pc = "idle"
    /\ \E x \in Inputs :
         LET r == reset(SetAttr(self, "input", x), NoKwargs)
         IN /\ self' = r.obj
            /\ err' = r.exc
            /\ pc' = IF r.exc = "none" THEN "reset" ELSE "raised"
    /\ calls' = calls + 1
    /\ UNCHANGED <<given, iteration, idx, spatial_idx, cb_idx, kwargs, log>>

(* the end of update_activation_em, lines 537-541, for the traces T *)
EmActivationUpdate ==
    /\ pc = "reset"
    /\ \E T \in EmTraces(self) :
         /\ self' = SetAttr(self, "activation",
                            [v |-> em_activation_of_trace(T, self.n_bins)]
                                @@ self.activation)
         /\ log' = <<Event("trace", 1, T)>>
    /\ pc' = "updated"
    /\ UNCHANGED <<given, err, iteration, idx, spatial_idx, cb_idx, kwargs, calls>>

NextEmActivation ==
    \/ EmReset
    \/ EmActivationUpdate

SpecEmActivation == InitEmActivation /\ [][NextEmActivation]_vars

(* the total of the positive entries *)
RECURSIVE SumPositive(_)
SumPositive(q) ==
    IF q = <<>> THEN <<0, 1>>
    ELSE RAdd(IF RLess(<<0, 1>>, q[1]) THEN q[1] ELSE <<0, 1>>, SumPositive(Tail(q)))

(* C24 as stated: the new activation is max(0, sum over blocks of the
   per-block trace) / n_bins, so a negative per-block trace offsets
   positive ones. *)
C24_ClipAfterBlockSum ==
    pc = "updated" =>
        \A a \in 1..self.n_basis :
            LET t == RSum(log[1].f[a])
            IN RMul(self.activation.v[a], <<self.n_bins, 1>>)
                   = IF RLess(t, <<0, 1>>) THEN <<0, 1>> ELSE t

(* C24 amended: each per-block trace is clipped at 0 before the summation
   over blocks: the new activation times n_bins is the total of the positive
   per-block traces, and a negative per-block trace offsets nothing. *)
C24_ClipBeforeBlockSum ==
    pc = "updated" =>
        \A a \in 1..self.n_basis :
            RMul(self.activation.v[a], <<self.n_bins, 1>>) = SumPositive(log[1].f[a])

C24_Witness ==
    /\ pc = "updated"
    /\ self.n_remains > 0
    /\ log[1].f[1][1] = <<0 - 2, 1>>
    /\ log[1].f[1][2] = <<3, 1>>
    /\ RLess(<<1, 1>>, RMul(self.activation.v[1], <<self.n_bins, 1>>))

SpatialUpdated ==
    /\ pc = "spatial"
    /\ spatial_idx >= 1
    /\ "rows" \in DOMAIN self.demix_filter

(* C25 as stated: within one spatial update the new row of every source is
   computed only from the demixing matrix as it was when the update started
   (so the order in which the sources are processed does not matter), for
   the VCD update as for the fixed-point update. *)
C25_RowsReadStartMatrix ==
    SpatialUpdated =>
        \A n, m \in 1..self.n_sources :
            self.demix_filter.rows[n].read[m] = self.demix_filter.rows[m].ver - 1

(* C25 amended: the fixed-point update computes every new row from the
   matrix as it was when the update started; the VCD update processes the
   sources in order, and the new row of source n is computed from the
   matrix in which the rows of the sources before n are already the new
   ones of this update. *)
C25_RowsReadInOrder ==
    SpatialUpdated =>
        \A n, m \in 1..self.n_sources :
            self.demix_filter.rows[n].read[m]
                = IF self.algorithm_spatial = "VCD" /\ m < n
                  THEN self.demix_filter.rows[m].ver
                  ELSE self.demix_filter.rows[m].ver - 1

C25_Witness ==
    /\ SpatialUpdated
    /\ self.algorithm_spatial = "VCD"
    /\ spatial_idx = 2
    /\ self.demix_filter.rows[2] = [ver |-> 2, read |-> <<2, 1>> \o [i \in 1..(self.n_sources - 2) |-> 1]]

(* C26: the estimate Y is recomputed from the current demixing matrix and
   the observation by every source-model update, every spatial update and
   the loss evaluator; none of them reads the stored estimation attribute,
   and none of them writes it: with any other value in the attribute each
   of them does the same, and leaves that value there. *)
StaleEstimation == <<0, 0, 0>>

SameButEstimation(r, r0) ==
    /\ r0.exc = r.exc
    /\ r0.obj = SetAttr(r.obj, "estimation", StaleEstimation)
    /\ r.obj.estimation = self.estimation

C26_EstimationNeverRead ==
    (Running /\ HasAttr(self, "estimation")) =>
        LET stale == SetAttr(self, "estimation", StaleEstimation)
        IN /\ SameButEstimation(update_source_model(self), update_source_model(stale))
           /\ SameButEstimation(update_spatial_model(self), update_spatial_model(stale))
           /\ compute_negative_loglikelihood_exc(stale)
                  = compute_negative_loglikelihood_exc(self)

C26_Witness ==
    /\ SpatialUpdated
    /\ idx = 2
    /\ self.recordable_loss
    /\ self.demix_filter.rows[1].ver >= 2
    /\ self.estimation = <<NChannels, NBins, NFrames>>

(* C27: each update writes only the state it owns: a source-model update
   leaves demix_filter and fixed_point as they were, a spatial update leaves
   basis and activation as they were, and an evaluation of the loss leaves
   all four as they were. *)
Kept(k) ==
    /\ HasAttr(self', k) = HasAttr(self, k)
    /\ HasAttr(self, k) => self'[k] = self[k]

SourceUpdateStep == pc = "loop" /\ idx' = idx + 1

SpatialUpdateStep == pc = "spatial" /\ spatial_idx' = spatial_idx + 1

LossStep ==
    \/ pc = "initial_loss" /\ pc' # "initial_loss"
    \/ pc = "spatial" /\ spatial_idx' = spatial_idx /\ pc' # "spatial"

C27_FrameStep ==
    /\ SourceUpdateStep => Kept("demix_filter") /\ Kept("fixed_point")
    /\ SpatialUpdateStep => Kept("basis") /\ Kept("activation")
    /\ LossStep => /\ Kept("demix_filter") /\ Kept("fixed_point")
                   /\ Kept("basis") /\ Kept("activation")

C27_Frame == [][C27_FrameStep]_vars

C27_Witness ==
    /\ pc = "spatial"
    /\ spatial_idx = 0
    /\ idx = 2
    /\ self.recordable_loss
    /\ Lower(self.author) = "ikeshita"
    /\ "rows" \in DOMAIN self.demix_filter
    /\ ~self.fixed_point.ones

(* C28: a second call of an instance whose first call returned after N1
   iterations re-runs the initialization on the demixing matrix, basis,
   activation and Lambda it has retained, and records no new initial loss:
   the trace, of 1 + N1 entries when the second call starts, is left as it
   is by the initialization, and when the second call returns after N2
   iterations it holds those entries followed by exactly N2 entries of the
   second call, one per iteration: 1 + N1 + N2 in all. *)
LossOfCall(c) == SelectSeq(self.loss.fs, LAMBDA e : e.call = c)

C28_SecondCallStep ==
    (pc = "done" /\ calls = 1 /\ calls' = 2 /\ self.recordable_loss) =>
        /\ Len(self.loss.fs) = 1 + iteration
        /\ self'.loss = self.loss
        /\ pc' = "initial_loss"
        /\ Kept("demix_filter") /\ Kept("basis") /\ Kept("activation")
        /\ Kept("fixed_point")

C28_SecondCallState ==
    (pc = "done" /\ calls = 2 /\ self.recordable_loss /\ Len(LossOfCall(1)) >= 1) =>
        /\ self.loss.fs = LossOfCall(1) \o LossOfCall(2)
        /\ Len(LossOfCall(2)) = iteration
        /\ \A j \in 1..iteration : LossOfCall(2)[j].source = j

C28_SecondCall == [](C28_SecondCallState) /\ [][C28_SecondCallStep]_vars

C28_Witness ==
    /\ pc = "done"
    /\ calls = 2
    /\ self.recordable_loss
    /\ iteration = 2
    /\ Len(self.loss.fs) = 5
    /\ Len(LossOfCall(1)) = 3

(* C29: a run modifies no array owned by the caller: whenever the next step
   of the run is an update, none of the arrays that update writes in place
   (the activation under the EM rules, the demixing matrix under VCD) is the
   observation tensor or a warm-start array the caller passed in; the write
   lands on the copy the initialization has made. *)
AboutToWriteInPlace ==
    IF pc = "loop" /\ idx < iteration
    THEN source_model_writes_in_place(self)
    ELSE IF pc = "spatial" /\ spatial_idx < self.spatial_iteration
         THEN spatial_model_writes_in_place(self)
         ELSE {}

C29_CallerArraysNotWritten ==
    /\ \A a \in AboutToWriteInPlace : ~CallerOwned(a)
    /\ InCall => CallerOwned(self.input)
    /\ \A k \in DOMAIN kwargs \cap {"demix_filter", "basis", "activation", "fixed_point"} :
           CallerOwned(kwargs[k])

C29_Witness ==
    /\ pc = "loop"
    /\ idx < iteration
    /\ calls = 1
    /\ "activation" \in DOMAIN kwargs
    /\ AboutToWriteInPlace = {np_copy(kwargs.activation)}

(* C30: a call whose keyword options set the variant name to an unsupported
   value raises an error, and does so before any source-model or spatial-model
   update has run: such a call never returns, and no update is in its log. *)
C30_UnsupportedVariantRaises ==
    ("author" \in DOMAIN kwargs /\ Lower(kwargs.author) \notin authors_ipsdta) =>
        /\ pc # "done"
        /\ CountOp(log, "source") = 0
        /\ CountOp(log, "spatial") = 0

=============================================================================
